---- MODULE Spec2Model ----
(***************************************************************************)
(* GSR stress detector of GSRsensor/sketch_aug11a/sketch_aug11a.ino:       *)
(* loop() reads one sample, updates the two SimpleKalmanFilter objects and *)
(* calls detectStress(), which gates a phasic threshold test with a        *)
(* refractory timer on millis().                                           *)
(*                                                                         *)
(* Numbers.  millis() is an unsigned long (32 bits); a 32-bit word is kept *)
(* as two 16-bit limbs [hi, lo] so that the arithmetic modulo 2^32 is the  *)
(* code's.  lastEventTime is a long: the conversions long <-> unsigned     *)
(* long keep the bit pattern, so the variable holds the word.  Signals are *)
(* fixed point, SCALE steps per sensor unit.                               *)
(***************************************************************************)
EXTENDS Integers, Naturals, Sequences, FiniteSets, TLC

VARIABLES
    clock,          \* millis() at the start of the next loop() iteration
    lastEventTime,  \* sketch line 33
    tick,           \* number of loop() iterations completed
    jitter,         \* milliseconds of execution time spent so far beyond the delays
    printed,        \* the timestamps printed on Serial, one per stress event
    rec,            \* what the last loop() iteration read, computed and did,
                    \* and the unwrapped times (..At) at which it did so
    fast,           \* gsrKalmanFilter
    slow,           \* baselineKalmanFilter
    input           \* the signal on pin A0 (the analogRead collaborator)

vars == <<clock, lastEventTime, tick, jitter, printed, rec, fast, slow, input>>

----------------------------------------------------------------------------
(* Bounds of the model *)

MaxTicks == 104
EstTicks == 400
ConvergeTicks == 330
MaxJitter == 1
JitterBudget == 2
\* iterations of loop() explored while the signal stays elevated
ElevTicks == 160
\* iterations of loop() explored around a wrap of the millisecond counter
WrapTicks == 56

----------------------------------------------------------------------------
(* Program constants *)

PHASIC_THRESHOLD == 13
REFRACTORY_PERIOD == 2500
TICK_DELAY == 50

\* fixed-point resolution of a signal value: SCALE steps per sensor unit
SCALE == 10^3

----------------------------------------------------------------------------
(* 32-bit unsigned words *)

Limb == 2^16

U32(n) == [hi |-> n \div Limb, lo |-> n % Limb]

U32Add(a, d) ==
    LET s == a.lo + d
    IN  [hi |-> (a.hi + (s \div Limb)) % Limb, lo |-> s % Limb]

U32Sub(a, b) ==
    LET d == a.lo - b.lo
        borrow == IF d < 0 THEN 1 ELSE 0
    IN  [hi |-> (a.hi - b.hi - borrow) % Limb, lo |-> d % Limb]

\* a > n for a word a and an int n widened to unsigned long (0 <= n < 2^16)
U32GtInt(a, n) == a.hi > 0 \/ a.lo > n

U32GeInt(a, n) == a.hi > 0 \/ a.lo >= n

----------------------------------------------------------------------------
(* detectStress, sketch lines 54-70 *)

\* the difference taken the other way round
PhasicSignal_Reversed(currentSignal, currentBaseline) == currentBaseline - currentSignal

\* line 59: double phasicSignal = currentSignal - currentBaseline
PhasicSignal(currentSignal, currentBaseline) == currentSignal - currentBaseline

\* the test of line 62 written against a deadline: millis() > lastEventTime + 2500
RefractoryOver_Deadline(now, last) ==
    LET deadline == U32Add(last, REFRACTORY_PERIOD)
    IN  now.hi > deadline.hi \/ (now.hi = deadline.hi /\ now.lo > deadline.lo)

\* the subtraction of line 62 with its operands exchanged
RefractoryOver_Swapped(now, last) == U32GtInt(U32Sub(last, now), REFRACTORY_PERIOD)

\* the refractory test written with >= : re-arms at exactly REFRACTORY_PERIOD
RefractoryOver_AtLeast(now, last) == U32GeInt(U32Sub(now, last), REFRACTORY_PERIOD)

\* line 62: millis() - lastEventTime > REFRACTORY_PERIOD, in unsigned long
RefractoryOver(now, last) == U32GtInt(U32Sub(now, last), REFRACTORY_PERIOD)

\* the threshold test written with >= : fires at exactly PHASIC_THRESHOLD
SpikeLargeEnough_AtLeast(phasicSignal) == phasicSignal >= PHASIC_THRESHOLD * SCALE

\* the threshold test on the phasic signal truncated to an integer
SpikeLargeEnough_Truncated(phasicSignal) == phasicSignal \div SCALE > PHASIC_THRESHOLD

\* the threshold test with the comparison turned round
SpikeLargeEnough_Below(phasicSignal) == phasicSignal < PHASIC_THRESHOLD * SCALE

\* line 64: phasicSignal > PHASIC_THRESHOLD
SpikeLargeEnough(phasicSignal) == phasicSignal > PHASIC_THRESHOLD * SCALE

\* the timer left as it was on firing
ResetTimer_Forgotten(last, now) == last

\* line 67: lastEventTime = millis()
ResetTimer(last, now) == now

(* One call of detectStress followed by delay(50).  millis() is read at    *)
(* line 62 (t1), and on firing again at line 66 (t2, printed) and at line  *)
(* 67 (t3, stored); a, d1 and d2 are the milliseconds that pass before     *)
(* each read.                                                              *)
DetectAndDelay(currentSignal, currentBaseline, a, d1, d2) ==
    LET t1 == U32Add(clock, a)
        phasicSignal == PhasicSignal(currentSignal, currentBaseline)
        fire == RefractoryOver(t1, lastEventTime) /\ SpikeLargeEnough(phasicSignal)
        t2 == U32Add(t1, d1)
        t3 == U32Add(t2, d2)
        used == a + d1 + d2
        \* the milliseconds really elapsed since the start of the run when
        \* line 62 and line 67 read millis(), counted without wrapping
        at1 == TICK_DELAY * tick + jitter + a
        at3 == at1 + d1 + d2
    IN  /\ jitter + used <= JitterBudget
        /\ ~fire => (d1 = 0 /\ d2 = 0)
        /\ printed' = IF fire THEN Append(printed, t2) ELSE printed
        /\ lastEventTime' = IF fire THEN ResetTimer(lastEventTime, t3)
                                    ELSE lastEventTime
        /\ clock' = U32Add(t3, TICK_DELAY)
        /\ jitter' = jitter + used
        /\ tick' = tick + 1
        /\ rec' = [n |-> tick + 1,
                   signal |-> currentSignal, baseline |-> currentBaseline,
                   phasic |-> phasicSignal,
                   last |-> lastEventTime, check |-> t1,
                   fired |-> fire, print |-> t2, store |-> t3,
                   lastAt |-> rec.storeAt, checkAt |-> at1,
                   storeAt |-> IF fire THEN at3 ELSE rec.storeAt]

----------------------------------------------------------------------------
(* The two estimators, sketch lines 23-24 and 45-46.                       *)
(*                                                                         *)
(* SimpleKalmanFilter is a library the sketch includes; its source is not  *)
(* part of the repository.  The estimator is the recursive estimator of    *)
(* the design: estimate x, error covariance p, process noise q and         *)
(* measurement noise r, updated by predict, gain, correct and covariance   *)
(* update.  Of the three constructor arguments the third is q: it is the   *)
(* only assignment under which the filter built at line 23 reacts faster   *)
(* than the one built at line 24 (q/r = 0.005 against 0.0001), as the      *)
(* sketch's header and the design require; the first two, equal in both    *)
(* calls, are r and the initial p.  The estimate starts at 0.              *)

\* fixed-point resolution of an uncertainty and of a gain
PSCALE == 10^4
GAIN == 10^4

Filter(r, p0, q) == [x |-> 0, p |-> p0, q |-> q, r |-> r, k |-> 0]

\* line 23 with the parameters of line 24
gsrKalmanFilter_AsBaseline == Filter(10 * PSCALE, 10 * PSCALE, PSCALE \div 1000)

\* line 23: SimpleKalmanFilter gsrKalmanFilter(2, 2, 0.01)
gsrKalmanFilter == Filter(2 * PSCALE, 2 * PSCALE, PSCALE \div 100)

\* line 24: SimpleKalmanFilter baselineKalmanFilter(10, 10, 0.001)
baselineKalmanFilter == Filter(10 * PSCALE, 10 * PSCALE, PSCALE \div 1000)

\* floor(k * d / GAIN) for 0 <= k <= GAIN, without leaving 32 bits
Scaled(k, d) == k * (d \div GAIN) + ((k * (d % GAIN)) \div GAIN)

\* the covariance update with its factor reversed: p = (k - 1) p'
updateEstimate_NegCov(e, mea) ==
    LET pp == e.p + e.q
        k  == (pp * GAIN) \div (pp + e.r)
        x2 == e.x + Scaled(k, mea - e.x)
        p2 == ((k - GAIN) * pp) \div GAIN
    IN  [e EXCEPT !.x = x2, !.p = p2, !.k = k]

\* the correction applied with the innovation's sign reversed: x = x - k (mea - x)
updateEstimate_SignSlip(e, mea) ==
    LET pp == e.p + e.q
        k  == (pp * GAIN) \div (pp + e.r)
        x2 == e.x - Scaled(k, mea - e.x)
        p2 == ((GAIN - k) * pp) \div GAIN
    IN  [e EXCEPT !.x = x2, !.p = p2, !.k = k]

\* the gain taken against the measurement noise alone: k = p' / r
updateEstimate_GainOverR(e, mea) ==
    LET pp == e.p + e.q
        k  == (pp * GAIN) \div e.r
        x2 == e.x + Scaled(k, mea - e.x)
        p2 == ((GAIN - k) * pp) \div GAIN
    IN  [e EXCEPT !.x = x2, !.p = p2, !.k = k]

\* updateEstimate: predict p' = p + q, gain k = p' / (p' + r),
\* correct x = x + k (mea - x), covariance update p = (1 - k) p'
updateEstimate(e, mea) ==
    LET pp == e.p + e.q
        k  == (pp * GAIN) \div (pp + e.r)
        x2 == e.x + Scaled(k, mea - e.x)
        p2 == ((GAIN - k) * pp) \div GAIN
    IN  [e EXCEPT !.x = x2, !.p = p2, !.k = k]

----------------------------------------------------------------------------
(* loop(), sketch lines 42-52, with the library's estimators left open:    *)
(* each updateEstimate call may return any of a few estimates around the   *)
(* threshold.                                                              *)

FastOutputs == {500 * SCALE, 513 * SCALE, 513 * SCALE + 1}
SlowOutputs == {500 * SCALE - 1, 500 * SCALE}

Init ==
    /\ clock = U32(0)
    /\ lastEventTime = U32(0)
    /\ tick = 0
    /\ jitter = 0
    /\ printed = << >>
    /\ rec = [n |-> 0, signal |-> 0, baseline |-> 0, phasic |-> 0,
              last |-> U32(0), check |-> U32(0),
              fired |-> FALSE, print |-> U32(0), store |-> U32(0),
              lastAt |-> 0, checkAt |-> 0, storeAt |-> 0]
    /\ fast = gsrKalmanFilter
    /\ slow = baselineKalmanFilter
    /\ input = [mode |-> "free"]

Loop ==
    /\ tick < MaxTicks
    /\ \E fastSignal \in FastOutputs, slowBaseline \in SlowOutputs,
          a \in 0..MaxJitter, d1 \in 0..MaxJitter, d2 \in 0..MaxJitter :
          /\ fast' = [fast EXCEPT !.x = fastSignal]
          /\ slow' = [slow EXCEPT !.x = slowBaseline]
          /\ DetectAndDelay(fastSignal, slowBaseline, a, d1, d2)
    /\ UNCHANGED input

Next == Loop

Spec == Init /\ [][Next]_vars

(***************************************************************************)
(* The same sketch long after power-up: the run starts WrapLead            *)
(* milliseconds before millis() passes a limb boundary, 2^31 (where a long *)
(* turns negative) or 2^32 (where the counter wraps), the last event       *)
(* having been stored `since` milliseconds earlier.                        *)
(***************************************************************************)
WrapLead == 120

\* millis() at the start of the run: WrapLead before 2^16, 2^31 and 2^32
WrapStarts == {[hi |-> h, lo |-> Limb - WrapLead] : h \in {0, (Limb \div 2) - 1, Limb - 1}}

\* milliseconds between the last event and the start of the run
WrapSince == {0, REFRACTORY_PERIOD - 100, REFRACTORY_PERIOD + 100}

WrapOutputs == {<<500 * SCALE, 500 * SCALE>>, <<513 * SCALE + 1, 500 * SCALE>>}

InitWrap ==
    /\ clock \in WrapStarts
    /\ \E since \in WrapSince :
          /\ lastEventTime = U32Sub(clock, U32(since))
          /\ rec = [n |-> 0, signal |-> 0, baseline |-> 0, phasic |-> 0,
                    last |-> U32(0), check |-> U32(0),
                    fired |-> FALSE, print |-> U32(0), store |-> U32(0),
                    lastAt |-> 0, checkAt |-> 0, storeAt |-> 0 - since]
    /\ tick = 0
    /\ jitter = 0
    /\ printed = << >>
    /\ fast = gsrKalmanFilter
    /\ slow = baselineKalmanFilter
    /\ input = [mode |-> "free"]

LoopWrap ==
    /\ tick < WrapTicks
    /\ \E out \in WrapOutputs,
          a \in 0..MaxJitter, d1 \in 0..MaxJitter, d2 \in 0..MaxJitter :
          LET fastSignal == out[1]
              slowBaseline == out[2]
          IN  /\ fast' = [fast EXCEPT !.x = fastSignal]
              /\ slow' = [slow EXCEPT !.x = slowBaseline]
              /\ DetectAndDelay(fastSignal, slowBaseline, a, d1, d2)
    /\ UNCHANGED input

NextWrap == LoopWrap

SpecWrap == InitWrap /\ [][NextWrap]_vars

(***************************************************************************)
(* The same sketch while the signal stays elevated: on every iteration the *)
(* library returns a fast estimate more than PHASIC_THRESHOLD above the    *)
(* slow one.  The Arduino core calls loop() for ever, hence the fairness.  *)
(***************************************************************************)
ElevatedOutputs == {<<513 * SCALE + 1, 500 * SCALE>>, <<600 * SCALE, 500 * SCALE - 1>>}

LoopElevated ==
    /\ tick < ElevTicks
    /\ \E out \in ElevatedOutputs,
          a \in 0..MaxJitter, d1 \in 0..MaxJitter, d2 \in 0..MaxJitter :
          LET fastSignal == out[1]
              slowBaseline == out[2]
          IN  /\ fast' = [fast EXCEPT !.x = fastSignal]
              /\ slow' = [slow EXCEPT !.x = slowBaseline]
              /\ DetectAndDelay(fastSignal, slowBaseline, a, d1, d2)
    /\ UNCHANGED input

NextElevated == LoopElevated

SpecElevated == Init /\ [][NextElevated]_vars /\ WF_vars(LoopElevated)

----------------------------------------------------------------------------
(* loop() with the estimators computed by updateEstimate, on a chosen      *)
(* signal: a constant, a step, or the noisy baseline followed by a jump.   *)

ConstInputs == {0, 500, 1023}
StepInputs == {[mode |-> "step", b |-> b, delta |-> d, n |-> n] :
                   b \in {0, 500}, d \in {1, 20, 300}, n \in {1, 30}}
NoisePatterns == {"alternate", "square", "triangle"}

\* an oscillation within -2..2 around the baseline
Noise(pattern, t) ==
    CASE pattern = "alternate" -> IF t % 2 = 0 THEN 2 ELSE -2
      [] pattern = "square"    -> IF (t \div 8) % 2 = 0 THEN 2 ELSE -2
      [] pattern = "triangle"  -> IF t % 8 <= 4 THEN (t % 8) - 2 ELSE 6 - (t % 8)

\* the baseline level, the number of baseline ticks, the level after the jump
\* and the number of ticks after the jump within which the event is due
Scenario == [base |-> 500, quiet |-> 100, level |-> 520, within |-> 25]

\* a settled baseline with one sample, on iteration `at`, read with the sensor
\* lead open: the converter's full-scale value
FaultScenario == [base |-> 500, at |-> 60, value |-> 1023]

\* line 44: int rawValue = analogRead(GSR_PIN), on iteration t (from 1)
analogRead(in, t) ==
    CASE in.mode = "const"    -> in.c
      [] in.mode = "fault"    -> IF t = FaultScenario.at THEN FaultScenario.value
                                                        ELSE FaultScenario.base
      [] in.mode = "step"     -> IF t <= in.n THEN in.b ELSE in.b + in.delta
      [] in.mode = "scenario" -> IF t <= Scenario.quiet
                                 THEN Scenario.base + Noise(in.pattern, t)
                                 ELSE Scenario.level

InitEst ==
    /\ clock = U32(0)
    /\ lastEventTime = U32(0)
    /\ tick = 0
    /\ jitter = 0
    /\ printed = << >>
    /\ rec = [n |-> 0, signal |-> 0, baseline |-> 0, phasic |-> 0,
              last |-> U32(0), check |-> U32(0),
              fired |-> FALSE, print |-> U32(0), store |-> U32(0),
              lastAt |-> 0, checkAt |-> 0, storeAt |-> 0]
    /\ fast = gsrKalmanFilter
    /\ slow = baselineKalmanFilter
    /\ input \in {[mode |-> "const", c |-> c] : c \in ConstInputs}
              \cup StepInputs
              \cup {[mode |-> "scenario", pattern |-> pt] : pt \in NoisePatterns}
              \cup {[mode |-> "fault"]}

\* line 45: the measurement passed to gsrKalmanFilter (int rawValue as a float)
FastMeasurement(rawValue) == rawValue * SCALE

\* the baseline filter fed with the fast filter's output
BaselineMeasurement_Cascaded(rawValue, fastSignal) == fastSignal

\* line 46: the measurement passed to baselineKalmanFilter: rawValue again
BaselineMeasurement(rawValue, fastSignal) == rawValue * SCALE

LoopEst ==
    /\ tick < EstTicks
    /\ \E a \in 0..MaxJitter, d1 \in 0..MaxJitter, d2 \in 0..MaxJitter :
          LET rawValue == analogRead(input, tick + 1)
              f == updateEstimate(fast, FastMeasurement(rawValue))
              s == updateEstimate(slow, BaselineMeasurement(rawValue, f.x))
          IN  /\ fast' = f
              /\ slow' = s
              /\ DetectAndDelay(f.x, s.x, a, d1, d2)
    /\ UNCHANGED input

NextEst == LoopEst

SpecEst == InitEst /\ [][NextEst]_vars

----------------------------------------------------------------------------
(* What the claims are stated with *)

Elapsed(now, last) == U32Sub(now, last)
AboveThreshold(ph) == ph > PHASIC_THRESHOLD * SCALE
Armed(now, last) == U32GtInt(Elapsed(now, last), REFRACTORY_PERIOD)
EventsBefore == Len(printed) - (IF rec.fired THEN 1 ELSE 0)

(* C1: any two stress events carry printed timestamps that are not closer  *)
(* together than REFRACTORY_PERIOD, the printed timestamp being a clock    *)
(* read of its own between the refractory check and the stored time.       *)
C1_RefractoryExclusivity ==
    \A i \in 1..Len(printed), j \in 1..Len(printed) :
        i < j => U32GeInt(Elapsed(printed[j], printed[i]), REFRACTORY_PERIOD)

\* two events, the second one printed and stored at different clock reads
C1_Witness ==
    /\ Len(printed) = 2
    /\ rec.fired
    /\ rec.print # rec.store

(* C2: the detector starts armed: on any iteration before the first event, *)
(* the first one included, a phasic value above PHASIC_THRESHOLD emits an  *)
(* event.                                                                  *)
C2_StartsArmed ==
    (rec.n >= 1 /\ EventsBefore = 0 /\ AboveThreshold(rec.phasic)) => rec.fired

(* C3: on every iteration whose refractory check finds more than           *)
(* REFRACTORY_PERIOD elapsed and whose phasic value is above               *)
(* PHASIC_THRESHOLD, exactly one event is emitted, lastEventTime becomes   *)
(* the time read at line 67, and the detector is cooling at the next       *)
(* iteration.                                                              *)
C3_ArmedFiring ==
    [][ /\ (Armed(rec'.check, lastEventTime) /\ AboveThreshold(rec'.phasic))
            => /\ rec'.fired
               /\ printed' = Append(printed, rec'.print)
               /\ lastEventTime' = rec'.store
               /\ ~Armed(clock', lastEventTime')
        /\ rec.fired => ~Armed(rec'.check, rec'.last) ]_vars

\* an event at the smallest excess over the threshold and over the period
C3_Witness ==
    /\ rec.fired
    /\ rec.phasic = PHASIC_THRESHOLD * SCALE + 1
    /\ Elapsed(rec.check, rec.last) = U32(REFRACTORY_PERIOD + 1)
    /\ Len(printed) = 2

(* C4: on every iteration whose refractory check finds at most             *)
(* REFRACTORY_PERIOD elapsed, exactly REFRACTORY_PERIOD included, no event *)
(* is emitted whatever the phasic value, and lastEventTime is unchanged.   *)
C4_CoolingSilence ==
    [][ ~Armed(rec'.check, lastEventTime)
            => /\ ~rec'.fired
               /\ printed' = printed
               /\ lastEventTime' = lastEventTime ]_vars

\* after an event, a spike exactly REFRACTORY_PERIOD later stays silent
C4_Witness ==
    /\ Len(printed) = 1
    /\ ~rec.fired
    /\ AboveThreshold(rec.phasic)
    /\ Elapsed(rec.check, lastEventTime) = U32(REFRACTORY_PERIOD)

(* C5: on every iteration whose phasic value is at most PHASIC_THRESHOLD,  *)
(* equality included, no event is emitted and lastEventTime is unchanged,  *)
(* also when the detector is armed.                                        *)
C5_ThresholdEdge ==
    [][ ~AboveThreshold(rec'.phasic)
            => /\ ~rec'.fired
               /\ printed' = printed
               /\ lastEventTime' = lastEventTime ]_vars

\* armed, the phasic value exactly the threshold, and silent
C5_Witness ==
    /\ rec.n >= 1
    /\ Armed(rec.check, rec.last)
    /\ rec.phasic = PHASIC_THRESHOLD * SCALE
    /\ ~rec.fired

(* C6: on every firing the printed timestamp, the value stored into        *)
(* lastEventTime and the time of the refractory check are one value.       *)
C6_OneNow ==
    rec.fired => (rec.print = rec.check /\ lastEventTime = rec.check)

----------------------------------------------------------------------------
(* The estimator claims, stated on loop() with the estimators computed     *)

\* distance left to the level lv (in sensor units) for estimator e
Below(e, lv) == lv * SCALE - e.x

\* within one sensor unit of the level
ConvergedEps == SCALE
Converged ==
    /\ tick >= 1
    /\ Below(fast, input.c) \in 0..ConvergedEps
    /\ Below(slow, input.c) \in 0..ConvergedEps

(* C7: from process start with the sketch's configuration, while the input *)
(* oscillates within 2 units around 500 for 100 ticks no event is emitted, *)
(* and after the jump to 520 at tick 101 an event is emitted within a      *)
(* bounded number of ticks.                                                *)
C7_Scenario ==
    input.mode = "scenario"
        => /\ tick <= Scenario.quiet => printed = << >>
           /\ tick >= Scenario.quiet + Scenario.within => Len(printed) >= 1

\* the event of the jump
C7_Witness ==
    /\ input.mode = "scenario"
    /\ rec.fired
    /\ Len(printed) = 1
    /\ rec.n > Scenario.quiet
    /\ rec.n < Scenario.quiet + Scenario.within

(* C8: with the raw input held at one value, from the tick at which both   *)
(* estimators have converged onward no event is emitted: the fast-minus-   *)
(* slow difference does not exceed PHASIC_THRESHOLD again.                 *)
C8_IdempotentSilence ==
    [][ (input.mode = "const" /\ Converged)
            => /\ ~rec'.fired
               /\ printed' = printed
               /\ ~AboveThreshold(rec'.phasic)
               /\ Converged' ]_vars

\* converged and armed again after an event of the start-up transient
C8_Witness ==
    /\ input.mode = "const"
    /\ Converged
    /\ tick = EstTicks
    /\ Len(printed) = 1
    /\ Armed(rec.check, rec.last)
    /\ ~rec.fired

C10_Separation ==
    (input.mode = "step" /\ tick > input.n)
        => /\ Below(fast, input.b + input.delta) >= 0
           /\ Below(fast, input.b + input.delta) < Below(slow, input.b + input.delta)

\* the first tick after the smallest jump
C10_Witness ==
    /\ input.mode = "step"
    /\ input.delta = 1
    /\ tick = input.n + 1
    /\ fast.x > slow.x

(* C11: on a tick whose raw sample is invalid (a sensor fault value) the   *)
(* update is skipped: both estimators keep the estimate and the            *)
(* uncertainty they had before the tick.                                   *)
C11_InvalidSkipped ==
    [][ (input.mode = "fault" /\ tick' = FaultScenario.at)
            => /\ fast'.x = fast.x /\ fast'.p = fast.p
               /\ slow'.x = slow.x /\ slow'.p = slow.p ]_vars

(* C12: every tick performs one sample read, one update of the fast and    *)
(* one of the slow estimator with that same sample, and then one detector  *)
(* evaluation on the two estimates produced in that tick; the estimators   *)
(* are updated whether the detector is armed or cooling, and ticks follow  *)
(* one another.                                                            *)
C12_TickPipeline ==
    [][ LET sample == analogRead(input, tick + 1) * SCALE
        IN  /\ tick' = tick + 1
            /\ rec'.n = tick'
            /\ fast' = updateEstimate(fast, sample)
            /\ slow' = updateEstimate(slow, sample)
            /\ rec'.signal = fast'.x
            /\ rec'.baseline = slow'.x
            /\ rec'.phasic = fast'.x - slow'.x
            /\ rec'.last = lastEventTime
            /\ rec'.fired = (Armed(rec'.check, lastEventTime)
                               /\ AboveThreshold(rec'.phasic)) ]_vars

\* a cooling tick, on which the detector stayed silent over a spike and both
\* estimators were updated all the same
C12_Witness ==
    /\ rec.n >= 2
    /\ ~Armed(rec.check, rec.last)
    /\ AboveThreshold(rec.phasic)
    /\ ~rec.fired
    /\ fast.x = rec.signal /\ fast.k > 0
    /\ slow.x = rec.baseline /\ slow.k > 0

\* iterations of loop() after which REFRACTORY_PERIOD has certainly elapsed
RearmTicks == (REFRACTORY_PERIOD \div TICK_DELAY) + 1

(* C13: while the phasic value stays above PHASIC_THRESHOLD on every tick,  *)
(* an event is emitted exactly on the ticks whose check time exceeds the    *)
(* previous lastEventTime by more than REFRACTORY_PERIOD, and after each    *)
(* emitted event another one is eventually emitted (as long as enough       *)
(* ticks remain for the period to elapse).                                  *)
C13_Rearming ==
    /\ [](rec.n >= 1 => /\ AboveThreshold(rec.phasic)
                         /\ rec.fired = Armed(rec.check, rec.last))
    /\ \A n \in 1..(ElevTicks \div RearmTicks) :
          (Len(printed) = n /\ tick <= ElevTicks - RearmTicks)
              ~> (Len(printed) = n + 1)

\* the third event of an elevated run: the detector re-armed twice
C13_Witness ==
    /\ Len(printed) = 3
    /\ rec.fired
    /\ AboveThreshold(rec.phasic)
    /\ Armed(rec.check, rec.last)
    /\ rec.last # U32(0)

\* y lies between a and b, ends included
Between(a, b, y) ==
    /\ (IF a < b THEN a ELSE b) <= y
    /\ y <= (IF a < b THEN b ELSE a)

\* one update of estimator e into e2 with the raw sample: gain strictly
\* between 0 and 1, estimate between the prior estimate and the sample
Convex(e, e2, sample) ==
    /\ 0 < e2.k
    /\ e2.k < GAIN
    /\ Between(e.x, sample, e2.x)

(* C14: in every update of either estimator the gain lies strictly between *)
(* 0 and 1 and the returned estimate lies between the prior estimate and   *)
(* the new raw sample.                                                     *)
C14_Convexity ==
    [][ LET sample == analogRead(input, tick + 1) * SCALE
        IN  /\ Convex(fast, fast', sample)
            /\ Convex(slow, slow', sample) ]_vars

\* after many updates and a jump of the input, both estimates lie strictly
\* between their start and the sample, the fast one closer to the sample
C14_Witness ==
    /\ input.mode = "step"
    /\ tick > input.n + 100
    /\ 0 < fast.k /\ fast.k < GAIN
    /\ 0 < slow.k /\ slow.k < fast.k
    /\ input.b * SCALE < slow.x
    /\ slow.x < fast.x
    /\ fast.x < (input.b + input.delta) * SCALE

(* C15: the estimate uncertainty of each estimator, constructed with the   *)
(* sketch's parameters, is non-negative in every reachable state.          *)
C15_UncertaintyNonNegative ==
    /\ fast.p >= 0
    /\ slow.p >= 0

\* after the last update explored, both uncertainties have shrunk from their
\* initial value and are still positive
C15_Witness ==
    /\ tick = EstTicks
    /\ 0 < fast.p /\ fast.p < gsrKalmanFilter.p
    /\ 0 < slow.p /\ slow.p < baselineKalmanFilter.p

\* the milliseconds really elapsed between the store of lastEventTime and
\* the read of millis() on line 62, in the last iteration
TrueElapsed == rec.checkAt - rec.lastAt

(* C16: the elapsed time that the refractory check computes, millis() -     *)
(* lastEventTime modulo 2^32, equals the true elapsed time also when the    *)
(* counter wrapped in between and when lastEventTime is at or above 2^31,   *)
(* so an event fires exactly when more than REFRACTORY_PERIOD has really    *)
(* elapsed and the phasic value is above the threshold.                     *)
C16_WrapAround ==
    rec.n >= 1 =>
        /\ TrueElapsed >= 0
        /\ Elapsed(rec.check, rec.last) = U32(TrueElapsed)
        /\ rec.fired = (TrueElapsed > REFRACTORY_PERIOD /\ AboveThreshold(rec.phasic))

\* an event stored just before 2^32 (a negative long), and the next event
\* after the counter wrapped, on the first tick past the refractory period
C16_Witness ==
    /\ Len(printed) = 2
    /\ rec.fired
    /\ rec.lastAt > 0
    /\ rec.last.hi = Limb - 1
    /\ rec.check.hi = 0
    /\ TrueElapsed > REFRACTORY_PERIOD
    /\ TrueElapsed <= REFRACTORY_PERIOD + TICK_DELAY + JitterBudget

====
